---- MODULE Spec2Model ----
(***************************************************************************)
(* Roof Maxx market analytics: the market-research collector, the          *)
(* predictive model suite, the geospatial analyzer, the CLV utility and    *)
(* the Streamlit dashboard, modelled as operations applied to one request. *)
(*                                                                         *)
(* Python floats are IEEE-754 binary64.  They are modelled bit-exactly     *)
(* (53-bit significand, round-to-nearest-even) on top of a small           *)
(* arbitrary-precision natural-number layer, because TLC integers are      *)
(* 32 bits wide.  Exponent overflow and subnormals are out of reach of     *)
(* the bounded inputs and are not modelled.                                *)
(***************************************************************************)
EXTENDS Integers, Sequences, FiniteSets, TLC

(***************************************************************************)
(* Arbitrary-precision naturals: little-endian limbs, canonical (no high   *)
(* zero limb), zero is the empty sequence.                                 *)
(***************************************************************************)
LimbBase == 2 ^ 15

TailOrEmpty(a) == IF a = <<>> THEN <<>> ELSE Tail(a)

HeadOrZero(a) == IF a = <<>> THEN 0 ELSE Head(a)

RECURSIVE BNorm(_)
BNorm(a) ==
  IF a = <<>> THEN <<>>
  ELSE IF a[Len(a)] = 0 THEN BNorm(SubSeq(a, 1, Len(a) - 1))
  ELSE a

RECURSIVE BFromInt(_)
BFromInt(n) ==
  IF n = 0 THEN <<>> ELSE <<n % LimbBase>> \o BFromInt(n \div LimbBase)

RECURSIVE BAddC(_, _, _)
BAddC(a, b, c) ==
  IF a = <<>> /\ b = <<>> THEN (IF c = 0 THEN <<>> ELSE <<c>>)
  ELSE LET s == HeadOrZero(a) + HeadOrZero(b) + c
       IN  <<s % LimbBase>> \o BAddC(TailOrEmpty(a), TailOrEmpty(b), s \div LimbBase)

BAdd(a, b) == BAddC(a, b, 0)

\* a - b - w for a >= b + w, limb by limb with borrow w
RECURSIVE BSubB(_, _, _)
BSubB(a, b, w) ==
  IF a = <<>> THEN <<>>
  ELSE LET d == Head(a) - HeadOrZero(b) - w
       IN  IF d < 0
           THEN <<d + LimbBase>> \o BSubB(Tail(a), TailOrEmpty(b), 1)
           ELSE <<d>> \o BSubB(Tail(a), TailOrEmpty(b), 0)

BSub(a, b) == BNorm(BSubB(a, b, 0))

\* -1, 0, 1 as a < b, a = b, a > b; compares from the top limb down
RECURSIVE BCmpFrom(_, _, _)
BCmpFrom(a, b, i) ==
  IF i = 0 THEN 0
  ELSE IF a[i] < b[i] THEN -1
  ELSE IF a[i] > b[i] THEN 1
  ELSE BCmpFrom(a, b, i - 1)

BCmp(a, b) ==
  IF Len(a) < Len(b) THEN -1
  ELSE IF Len(a) > Len(b) THEN 1
  ELSE BCmpFrom(a, b, Len(a))

\* a * k + c for one limb k
RECURSIVE BMulSmallC(_, _, _)
BMulSmallC(a, k, c) ==
  IF a = <<>> THEN (IF c = 0 THEN <<>> ELSE <<c>>)
  ELSE LET p == Head(a) * k + c
       IN  <<p % LimbBase>> \o BMulSmallC(Tail(a), k, p \div LimbBase)

BMulSmall(a, k) == IF k = 0 THEN <<>> ELSE BMulSmallC(a, k, 0)

RECURSIVE BMul(_, _)
BMul(a, b) ==
  IF a = <<>> \/ b = <<>> THEN <<>>
  ELSE LET rest == BMul(a, Tail(b))
       IN  BAdd(BMulSmall(a, Head(b)),
                IF rest = <<>> THEN <<>> ELSE <<0>> \o rest)

Zeros(n) == [i \in 1..n |-> 0]

\* a * 2^n
BShl(a, n) ==
  IF a = <<>> THEN <<>>
  ELSE Zeros(n \div 15) \o BMulSmall(a, 2 ^ (n % 15))

\* floor(a / 2^n)
BShr(a, n) ==
  LET k == n \div 15
      r == n % 15
      d == IF k >= Len(a) THEN <<>> ELSE SubSeq(a, k + 1, Len(a))
      lo == 2 ^ r
      hi == 2 ^ (15 - r)
  IN  IF r = 0 THEN d
      ELSE BNorm([i \in 1..Len(d) |->
                    (d[i] \div lo) +
                    (IF i < Len(d) THEN (d[i + 1] % lo) * hi ELSE 0)])

RECURSIVE IntBitLen(_)
IntBitLen(n) == IF n = 0 THEN 0 ELSE 1 + IntBitLen(n \div 2)

BBitLen(a) ==
  IF a = <<>> THEN 0 ELSE (Len(a) - 1) * 15 + IntBitLen(a[Len(a)])

BIsOdd(a) == a # <<>> /\ a[1] % 2 = 1

\* the largest d below 2^(i+1) + d0 with b * d <= r, by binary search on
\* the bits i, i-1, ..., 0 of d
RECURSIVE QuotDigit(_, _, _, _)
QuotDigit(r, b, i, d) ==
  IF i < 0 THEN d
  ELSE IF BCmp(BMulSmall(b, d + 2 ^ i), r) <= 0
  THEN QuotDigit(r, b, i - 1, d + 2 ^ i)
  ELSE QuotDigit(r, b, i - 1, d)

\* n more base-2^15 digits of the quotient of r by b, for r < b:
\* <<floor(r * 2^(15 n) / b), remainder>>
RECURSIVE BLongDiv(_, _, _, _)
BLongDivDigit(r2, b, n, q, d) ==
  BLongDiv(BSub(r2, BMulSmall(b, d)), b, n - 1, <<d>> \o q)

BLongDivShifted(r2, b, n, q) == BLongDivDigit(r2, b, n, q, QuotDigit(r2, b, 14, 0))

BLongDiv(r, b, n, q) ==
  IF n = 0 THEN <<BNorm(q), r>> ELSE BLongDivShifted(BShl(r, 15), b, n, q)

(***************************************************************************)
(* IEEE-754 binary64.  A finite value is (-1)^s * m * 2^e with m = 0 or    *)
(* 2^52 <= m < 2^53; zero is canonical (s = 0, e = 0).  "inf" and "nan"    *)
(* are what numpy's array division yields for x/0 and 0/0.                 *)
(***************************************************************************)
FZero == [k |-> "fin", s |-> 0, m |-> <<>>, e |-> 0]

FNaN == [k |-> "nan", s |-> 0, m |-> <<>>, e |-> 0]

FInf(sg) == [k |-> "inf", s |-> sg, m |-> <<>>, e |-> 0]

FIsZero(x) == x.k = "fin" /\ x.m = <<>>

\* the double nearest to (-1)^sg * n * 2^ex, ties to even
\* q2 is the rounded significand of 53 bits, or 2^53 after a carry
FRoundCarry(sg, q2, ex) ==
  IF BBitLen(q2) = 54
  THEN [k |-> "fin", s |-> sg, m |-> BShr(q2, 1), e |-> ex + 1]
  ELSE [k |-> "fin", s |-> sg, m |-> q2, e |-> ex]

\* c compares the discarded bits with one half
FRoundHalf(sg, q, c, ex) ==
  FRoundCarry(sg, IF c > 0 \/ (c = 0 /\ BIsOdd(q)) THEN BAdd(q, <<1>>) ELSE q, ex)

\* q is n without its sh low bits
FRoundShifted(sg, n, q, sh, ex) ==
  FRoundHalf(sg, q, BCmp(BSub(n, BShl(q, sh)), BShl(<<1>>, sh - 1)), ex + sh)

FRoundLen(sg, n, len, ex) ==
  IF len = 0 THEN FZero
  ELSE IF len <= 53
  THEN [k |-> "fin", s |-> sg, m |-> BShl(n, 53 - len), e |-> ex - (53 - len)]
  ELSE FRoundShifted(sg, n, BShr(n, len - 53), len - 53, ex)

FRound(sg, n, ex) == FRoundLen(sg, n, BBitLen(n), ex)

\* int -> float conversion (exact below 2^53)
FFromInt(n) == IF n < 0 THEN FRound(1, BFromInt(-n), 0) ELSE FRound(0, BFromInt(n), 0)

FNeg(x) == IF x.k = "nan" \/ FIsZero(x) THEN x ELSE [x EXCEPT !.s = 1 - x.s]

FMul(x, y) ==
  IF x.k = "nan" \/ y.k = "nan" THEN FNaN
  ELSE IF x.k = "inf" \/ y.k = "inf"
  THEN (IF FIsZero(x) \/ FIsZero(y) THEN FNaN ELSE FInf((x.s + y.s) % 2))
  ELSE IF FIsZero(x) \/ FIsZero(y) THEN FZero
  ELSE FRound((x.s + y.s) % 2, BMul(x.m, y.m), x.e + y.e)

\* magnitudes of two finite non-zero values on a common exponent; an
\* operand more than 64 binary places below the other only acts as a
\* sticky bit
FAlign(x, y) ==
  IF x.e - y.e > 64 THEN [ex |-> x.e - 64, nx |-> BShl(x.m, 64), ny |-> <<1>>]
  ELSE IF y.e - x.e > 64 THEN [ex |-> y.e - 64, nx |-> <<1>>, ny |-> BShl(y.m, 64)]
  ELSE IF x.e >= y.e THEN [ex |-> y.e, nx |-> BShl(x.m, x.e - y.e), ny |-> y.m]
  ELSE [ex |-> x.e, nx |-> x.m, ny |-> BShl(y.m, y.e - x.e)]

FAddCompared(xs, ys, a, c) ==
  IF xs = ys THEN FRound(xs, BAdd(a.nx, a.ny), a.ex)
  ELSE IF c = 0 THEN FZero
  ELSE IF c > 0 THEN FRound(xs, BSub(a.nx, a.ny), a.ex)
  ELSE FRound(ys, BSub(a.ny, a.nx), a.ex)

FAddAligned(xs, ys, a) == FAddCompared(xs, ys, a, BCmp(a.nx, a.ny))

FAdd(x, y) ==
  IF x.k = "nan" \/ y.k = "nan" THEN FNaN
  ELSE IF x.k = "inf"
  THEN (IF y.k = "inf" /\ y.s # x.s THEN FNaN ELSE x)
  ELSE IF y.k = "inf" THEN y
  ELSE IF FIsZero(x) THEN y
  ELSE IF FIsZero(y) THEN x
  ELSE FAddAligned(x.s, y.s, FAlign(x, y))

FSub(x, y) == FAdd(x, FNeg(y))

\* x / y for finite x and finite non-zero y: the integer part of the
\* significand quotient (0 or 1), 60 more quotient bits and a sticky bit
\* for the remainder, then one rounding
FDivSticky(sg, qr, ex) ==
  FRound(sg, BAddC(BMulSmall(qr[1], 2), <<>>, IF qr[2] = <<>> THEN 0 ELSE 1), ex)

FDivSignificands(sg, xm, ym, ge, ex) ==
  FDivSticky(sg, BLongDiv(IF ge THEN BSub(xm, ym) ELSE xm, ym, 4,
                          IF ge THEN <<1>> ELSE <<>>), ex)

FDivFinite(x, y) ==
  IF FIsZero(x) THEN FZero
  ELSE FDivSignificands((x.s + y.s) % 2, x.m, y.m, BCmp(x.m, y.m) >= 0,
                        x.e - y.e - 61)

\* numpy true division of float64 arrays, elementwise: no exception
NpDiv(x, y) ==
  IF x.k = "nan" \/ y.k = "nan" THEN FNaN
  ELSE IF x.k = "inf" THEN (IF y.k = "inf" THEN FNaN ELSE FInf((x.s + y.s) % 2))
  ELSE IF y.k = "inf" THEN FZero
  ELSE IF FIsZero(y) THEN (IF FIsZero(x) THEN FNaN ELSE FInf(x.s))
  ELSE FDivFinite(x, y)

\* -1, 0, 1 for finite x < y, x = y, x > y
FCmp(x, y) ==
  IF FIsZero(x) /\ FIsZero(y) THEN 0
  ELSE IF FIsZero(x) THEN (IF y.s = 0 THEN -1 ELSE 1)
  ELSE IF FIsZero(y) THEN (IF x.s = 0 THEN 1 ELSE -1)
  ELSE IF x.s # y.s THEN (IF x.s = 0 THEN 1 ELSE -1)
  ELSE LET mag == IF x.e # y.e THEN (IF x.e > y.e THEN 1 ELSE -1)
                  ELSE BCmp(x.m, y.m)
       IN  IF x.s = 0 THEN mag ELSE -mag

FLe(x, y) == x.k = "fin" /\ y.k = "fin" /\ FCmp(x, y) <= 0

FLt(x, y) == x.k = "fin" /\ y.k = "fin" /\ FCmp(x, y) < 0

\* Python == on floats: nan is unequal to everything
FEq(x, y) == x.k # "nan" /\ y.k # "nan" /\ x = y

\* Python's sum(): left to right from the int 0
RECURSIVE FSumFrom(_, _, _)
FSumFrom(xs, i, acc) ==
  IF i > Len(xs) THEN acc ELSE FSumFrom(xs, i + 1, FAdd(acc, xs[i]))

FSum(xs) == FSumFrom(xs, 1, FZero)

\* the double a decimal literal num/den denotes (num, den exact integers):
\* the correctly rounded quotient
FLit(num, den) == FDivFinite(FFromInt(num), FFromInt(den))

(***************************************************************************)
(* pandas DataFrames, column-oriented as the code builds them: the ordered *)
(* column labels, each column's dtype and each column's values.            *)
(***************************************************************************)
DataFrame(cols, types, values) ==
  [columns |-> cols, dtypes |-> types, data |-> values]

NRows(df) == IF df.columns = <<>> THEN 0 ELSE Len(df.data[df.columns[1]])

HasColumn(df, c) == \E i \in 1..Len(df.columns) : df.columns[i] = c

\* df[c] = vals: replaces the column in place or appends it on the right
SetColumn(df, c, type, vals) ==
  [columns |-> IF HasColumn(df, c) THEN df.columns ELSE Append(df.columns, c),
   dtypes  |-> (c :> type) @@ df.dtypes,
   data    |-> (c :> vals) @@ df.data]

\* a column as float64 values (int64 converts exactly)
AsFloat(df, c) ==
  IF df.dtypes[c] = "int64"
  THEN [i \in 1..NRows(df) |-> FFromInt(df.data[c][i])]
  ELSE df.data[c]

\* Series * Series, Series * scalar, Series / Series on float64 values
SeriesMul(a, b) == [i \in 1..Len(a) |-> FMul(a[i], b[i])]

SeriesScale(a, c) == [i \in 1..Len(a) |-> FMul(a[i], c)]

SeriesDiv(a, b) == [i \in 1..Len(a) |-> NpDiv(a[i], b[i])]

\* a list of two-decimal literals such as 0.61, given in hundredths
Hundredths(xs) == [i \in 1..Len(xs) |-> FLit(xs[i], 100)]

(***************************************************************************)
(* MarketResearchCollector.collect_demographic_data                        *)
(***************************************************************************)
WashingtonData ==
  [county             |-> <<"King", "Pierce", "Snohomish", "Spokane", "Clark",
                            "Thurston", "Kitsap", "Yakima", "Whatcom", "Benton">>,
   population         |-> <<2269675, 921130, 827957, 522798, 503311,
                            291681, 271473, 256728, 229247, 206873>>,
   median_income      |-> <<106326, 78936, 95184, 62371, 82614,
                            79683, 81934, 61709, 72977, 84867>>,
   median_home_value  |-> <<686400, 451200, 589700, 298100, 445900,
                            398600, 459800, 264100, 475300, 338700>>,
   homeownership_rate |-> Hundredths(<<61, 65, 68, 62, 66, 64, 66, 58, 63, 68>>),
   housing_units      |-> <<953923, 363418, 327152, 218234, 199876,
                            123456, 112345, 95432, 98765, 87654>>]

CanadaData ==
  [province              |-> <<"Ontario", "British Columbia", "Alberta", "Quebec",
                               "Manitoba", "Saskatchewan">>,
   population            |-> <<14826276, 5214805, 4543111, 8604495,
                               1383765, 1194803>>,
   median_income_cad     |-> <<87353, 82851, 97940, 79105, 77750, 80679>>,
   median_home_value_cad |-> <<769800, 876600, 476300, 453200, 347800, 312500>>,
   homeownership_rate    |-> Hundredths(<<69, 68, 72, 61, 70, 71>>),
   housing_units         |-> <<5929000, 2100000, 1760000, 3700000,
                               580000, 485000>>]

\* df['est_asphalt_roofs'] = df['housing_units'] * df['homeownership_rate'] * asphalt
EstAsphaltRoofs(df, asphalt) ==
  SetColumn(df, "est_asphalt_roofs", "float64",
            SeriesScale(SeriesMul(AsFloat(df, "housing_units"),
                                  AsFloat(df, "homeownership_rate")), asphalt))

\* df['est_qualified_roofs'] = df['est_asphalt_roofs'] * qualify
EstQualifiedRoofs(df, qualify) ==
  SetColumn(df, "est_qualified_roofs", "float64",
            SeriesScale(df.data["est_asphalt_roofs"], qualify))

\* df['market_potential_annual'] = df['est_qualified_roofs'] * replacement
MarketPotentialAnnual(df, replacement) ==
  SetColumn(df, "market_potential_annual", "float64",
            SeriesScale(df.data["est_qualified_roofs"], replacement))

\* the three derived columns, assigned in this order
AddressableMarket(df, asphalt, qualify, replacement) ==
  MarketPotentialAnnual(EstQualifiedRoofs(EstAsphaltRoofs(df, asphalt), qualify),
                        replacement)

\* mutant: the Canadian fractions applied to the Washington table
WashingtonFrameCanadaFractions ==
  AddressableMarket(
    DataFrame(<<"county", "population", "median_income", "median_home_value",
                "homeownership_rate", "housing_units">>,
              [county |-> "object", population |-> "int64",
               median_income |-> "int64", median_home_value |-> "int64",
               homeownership_rate |-> "float64", housing_units |-> "int64"],
              WashingtonData),
    FLit(72, 100), FLit(85, 100), FLit(65, 1000))

WashingtonFrame ==
  AddressableMarket(
    DataFrame(<<"county", "population", "median_income", "median_home_value",
                "homeownership_rate", "housing_units">>,
              [county |-> "object", population |-> "int64",
               median_income |-> "int64", median_home_value |-> "int64",
               homeownership_rate |-> "float64", housing_units |-> "int64"],
              WashingtonData),
    FLit(70, 100), FLit(90, 100), FLit(7, 100))

CanadaFrame ==
  AddressableMarket(
    DataFrame(<<"province", "population", "median_income_cad",
                "median_home_value_cad", "homeownership_rate", "housing_units">>,
              [province |-> "object", population |-> "int64",
               median_income_cad |-> "int64", median_home_value_cad |-> "int64",
               homeownership_rate |-> "float64", housing_units |-> "int64"],
              CanadaData),
    FLit(72, 100), FLit(85, 100), FLit(65, 1000))

(***************************************************************************)
(* RoofMaxxPredictiveModel.forecast_lead_generation, as pure operators.    *)
(* The inputs are Python ints; "/" is true division.                       *)
(***************************************************************************)
PyDiv(x, y) == FDivFinite(x, y)

SeoMultiplier(seo_score) ==
  FAdd(FFromInt(1), FMul(PyDiv(FFromInt(seo_score), FFromInt(100)), FFromInt(2)))

ContentMultiplier(content_pieces) ==
  FAdd(FFromInt(1), FMul(PyDiv(FFromInt(content_pieces), FFromInt(50)), FLit(15, 10)))

\* mutant: the review bonus subtracted instead of added
ReviewMultiplierSubtracts(review_count) ==
  FSub(FFromInt(1), FMul(PyDiv(FFromInt(review_count), FFromInt(100)), FLit(5, 10)))

ReviewMultiplier(review_count) ==
  FAdd(FFromInt(1), FMul(PyDiv(FFromInt(review_count), FFromInt(100)), FLit(5, 10)))

MonthlyLeads(digital_spend, seo_score, content_pieces, review_count) ==
  FMul(FMul(FMul(FMul(PyDiv(FFromInt(digital_spend), FFromInt(1000)), FFromInt(15)),
                 SeoMultiplier(seo_score)),
            ContentMultiplier(content_pieces)),
       ReviewMultiplier(review_count))

LeadBreakdown(monthly_leads) ==
  [total_leads |-> monthly_leads,
   hot_leads   |-> FMul(monthly_leads, FLit(25, 100)),
   warm_leads  |-> FMul(monthly_leads, FLit(45, 100)),
   cold_leads  |-> FMul(monthly_leads, FLit(30, 100))]

ConversionRates ==
  [hot_conversion  |-> FLit(60, 100),
   warm_conversion |-> FLit(25, 100),
   cold_conversion |-> FLit(5, 100)]

ProjectedSales(lead_breakdown) ==
  FAdd(FAdd(FMul(lead_breakdown.hot_leads, ConversionRates.hot_conversion),
            FMul(lead_breakdown.warm_leads, ConversionRates.warm_conversion)),
       FMul(lead_breakdown.cold_leads, ConversionRates.cold_conversion))

\* mutant: only the spend is tested for zero; zero leads divide to inf
ForecastRaisesOnZeroSpendOnly(digital_spend, monthly_leads, projected_sales) ==
  digital_spend = 0

\* the three divisions of the returned dict, in evaluation order; Python
\* raises ZeroDivisionError at the first zero divisor
ForecastRaises(digital_spend, monthly_leads, projected_sales) ==
  \/ FIsZero(monthly_leads)     \* digital_spend / monthly_leads
  \/ FIsZero(projected_sales)   \* digital_spend / projected_sales
  \/ digital_spend = 0          \* (...) / digital_spend

\* the returned dict
LeadForecastDict(digital_spend, monthly_leads, lead_breakdown, projected_sales) ==
  [kind                      |-> "lead_forecast",
   leads                     |-> lead_breakdown,
   conversion_rates          |-> ConversionRates,
   projected_monthly_sales   |-> projected_sales,
   projected_monthly_revenue |-> FMul(projected_sales, FFromInt(4500)),
   cost_per_lead             |-> PyDiv(FFromInt(digital_spend), monthly_leads),
   cost_per_acquisition      |-> PyDiv(FFromInt(digital_spend), projected_sales),
   roi                       |-> PyDiv(FSub(FMul(projected_sales, FFromInt(4500)),
                                            FFromInt(digital_spend)),
                                       FFromInt(digital_spend))]

LeadForecastFrom(digital_spend, monthly_leads, lead_breakdown) ==
  LeadForecastDict(digital_spend, monthly_leads, lead_breakdown,
                   ProjectedSales(lead_breakdown))

LeadForecast(digital_spend, monthly_leads) ==
  LeadForecastFrom(digital_spend, monthly_leads, LeadBreakdown(monthly_leads))

(***************************************************************************)
(* RoofMaxxPredictiveModel.seasonal_demand_forecast: the table built when  *)
(* no historical data is given.                                            *)
(***************************************************************************)
\* a list of one-decimal literals such as 0.4, given in tenths
Tenths(xs) == [i \in 1..Len(xs) |-> FLit(xs[i], 10)]

\* a pattern with the peak in the winter months
SeasonalFrameWinterPeak ==
  DataFrame(<<"month", "seasonal_index", "demand_category">>,
            [month |-> "object", seasonal_index |-> "float64",
             demand_category |-> "object"],
            [month           |-> <<"Jan", "Feb", "Mar", "Apr", "May", "Jun",
                                   "Jul", "Aug", "Sep", "Oct", "Nov", "Dec">>,
             seasonal_index  |-> Tenths(<<17, 15, 12, 9, 5, 4,
                                          4, 5, 9, 13, 16, 18>>),
             demand_category |-> <<"Peak", "High", "High", "Medium", "Low", "Low",
                                   "Low", "Low", "Medium", "High", "Peak", "Peak">>])

SeasonalFrame ==
  DataFrame(<<"month", "seasonal_index", "demand_category">>,
            [month |-> "object", seasonal_index |-> "float64",
             demand_category |-> "object"],
            [month           |-> <<"Jan", "Feb", "Mar", "Apr", "May", "Jun",
                                   "Jul", "Aug", "Sep", "Oct", "Nov", "Dec">>,
             seasonal_index  |-> Tenths(<<4, 5, 9, 13, 16, 18,
                                          17, 15, 12, 9, 5, 4>>),
             demand_category |-> <<"Low", "Low", "Medium", "High", "Peak", "Peak",
                                   "Peak", "High", "High", "Medium", "Low", "Low">>])

(***************************************************************************)
(* calculate_customer_lifetime_value.  avg_treatment_cost and treatments   *)
(* are Python ints, referral_rate a float.                                 *)
(***************************************************************************)
DefaultCLVArgs ==
  [avg_treatment_cost |-> 4500, treatments |-> 3, referral_rate |-> FLit(3, 10)]

\* mutant: the referral value earned once per treatment
CustomerLifetimeValueReferralPerTreatment(avg_treatment_cost, treatments, referral_rate) ==
  LET direct_revenue == avg_treatment_cost * treatments
      referral_value == FMul(FFromInt(avg_treatment_cost * treatments), referral_rate)
  IN  [kind           |-> "clv",
       direct_revenue |-> direct_revenue,
       referral_value |-> referral_value,
       total_clv      |-> FAdd(FFromInt(direct_revenue), referral_value),
       timespan_years |-> treatments * 5]

CustomerLifetimeValue(avg_treatment_cost, treatments, referral_rate) ==
  LET direct_revenue == avg_treatment_cost * treatments
      referral_value == FMul(FFromInt(avg_treatment_cost), referral_rate)
  IN  [kind           |-> "clv",
       direct_revenue |-> direct_revenue,
       referral_value |-> referral_value,
       total_clv      |-> FAdd(FFromInt(direct_revenue), referral_value),
       timespan_years |-> treatments * 5]

(***************************************************************************)
(* String formatting: format(x, ',.0f') rounds to the nearest integer,     *)
(* ties to even on the exact binary value, and groups thousands.           *)
(***************************************************************************)
\* a natural below 2^31 from its limbs
BToInt(a) ==
  IF a = <<>> THEN 0
  ELSE IF Len(a) = 1 THEN a[1]
  ELSE IF Len(a) = 2 THEN a[1] + LimbBase * a[2]
  ELSE a[1] + LimbBase * (a[2] + LimbBase * a[3])

\* |x| rounded half-to-even to an integer, for finite |x| < 2^31
RoundHalfEvenCompared(q, c) ==
  BToInt(q) + (IF c > 0 \/ (c = 0 /\ BIsOdd(q)) THEN 1 ELSE 0)

RoundHalfEvenShifted(m, q, sh) ==
  RoundHalfEvenCompared(q, BCmp(BSub(m, BShl(q, sh)), BShl(<<1>>, sh - 1)))

RoundHalfEven(x) ==
  IF FIsZero(x) THEN 0
  ELSE IF x.e >= 0 THEN BToInt(BShl(x.m, x.e))
  ELSE IF -x.e > 54 THEN 0
  ELSE RoundHalfEvenShifted(x.m, BShr(x.m, -x.e), -x.e)

Pad3(n) ==
  IF n < 10 THEN "00" \o ToString(n)
  ELSE IF n < 100 THEN "0" \o ToString(n)
  ELSE ToString(n)

RECURSIVE Grouped(_)
Grouped(n) ==
  IF n < 1000 THEN ToString(n)
  ELSE Grouped(n \div 1000) \o "," \o Pad3(n % 1000)

\* format(n, ',.0f') for an int n
FormatInt0(n) == IF n < 0 THEN "-" \o Grouped(-n) ELSE Grouped(n)

\* format(x, ',.0f') for a float x
FormatFloat0(x) ==
  IF x.k = "nan" THEN "nan"
  ELSE IF x.k = "inf" THEN (IF x.s = 1 THEN "-inf" ELSE "inf")
  ELSE IF x.s = 1 THEN "-" \o Grouped(RoundHalfEven(x))
  ELSE Grouped(RoundHalfEven(x))

(***************************************************************************)
(* streamlit_dashboard.py: the st.metric calls of the Executive Dashboard  *)
(* tab and of the Customer Insights CLV panel.  The sidebar values are     *)
(* read into variables that no later statement uses.                       *)
(***************************************************************************)
Metric(l, v, d) == [label |-> l, value |-> v, delta |-> d]

\* a dashboard whose lead count followed the marketing budget
ExecutiveMetricsFromBudget(territory, date_range, monthly_marketing) ==
  <<Metric("Monthly Leads", IF monthly_marketing = 5000 THEN "187" ELSE "212",
           "+23 vs last month"),
    Metric("Conversion Rate", "28.5%", "+3.2%"),
    Metric("Revenue (MTD)", "$241,500", "+$45,300"),
    Metric("Pipeline Value", "$1.2M", "+18%")>>

ExecutiveMetrics(territory, date_range, monthly_marketing) ==
  <<Metric("Monthly Leads", "187", "+23 vs last month"),
    Metric("Conversion Rate", "28.5%", "+3.2%"),
    Metric("Revenue (MTD)", "$241,500", "+$45,300"),
    Metric("Pipeline Value", "$1.2M", "+18%")>>

\* a rounding that drops the digits after the kept one
NpRoundTruncates(x, decimals) ==
  IF x.k # "fin" THEN x
  ELSE FDivFinite(FFromInt(RoundHalfEven(FMul(x, FFromInt(2 * 10 ^ decimals)))
                             \div 2),
                  FFromInt(10 ^ decimals))

\* Series.round(decimals) of numpy float64 values: rint(x * 10^decimals)
\* divided by 10^decimals; a value that is not finite rounds to itself
NpRound(x, decimals) ==
  IF x.k # "fin" THEN x
  ELSE IF x.s = 1
  THEN FNeg(FDivFinite(FFromInt(RoundHalfEven(FMul(x, FFromInt(10 ^ decimals)))),
                       FFromInt(10 ^ decimals)))
  ELSE FDivFinite(FFromInt(RoundHalfEven(FMul(x, FFromInt(10 ^ decimals)))),
                  FFromInt(10 ^ decimals))

\* the Lead Generation tab's table of lead sources
LeadSourcesData ==
  DataFrame(<<"Source", "Leads", "Cost", "Conversions">>,
            [Source |-> "object", Leads |-> "int64", Cost |-> "int64",
             Conversions |-> "int64"],
            [Source      |-> <<"Google Ads", "SEO/Organic", "Facebook Ads",
                               "Referrals", "Direct Mail", "Home Shows">>,
             Leads       |-> <<67, 52, 34, 23, 8, 3>>,
             Cost        |-> <<3200, 800, 1800, 200, 900, 400>>,
             Conversions |-> <<19, 18, 8, 12, 2, 1>>])

\* with Cost_Per_Lead = Cost / Leads and
\* Conversion_Rate = (Conversions / Leads * 100).round(1)
LeadSourcesRated(df, ratio) ==
  SetColumn(df, "Conversion_Rate", "float64",
            [i \in 1..Len(ratio) |-> NpRound(FMul(ratio[i], FFromInt(100)), 1)])

LeadSources ==
  LeadSourcesRated(SetColumn(LeadSourcesData, "Cost_Per_Lead", "float64",
                             SeriesDiv(AsFloat(LeadSourcesData, "Cost"),
                                       AsFloat(LeadSourcesData, "Leads"))),
                   SeriesDiv(AsFloat(LeadSourcesData, "Conversions"),
                             AsFloat(LeadSourcesData, "Leads")))

CLVPanelMetrics ==
  LET avg_treatment == 4500
      treatments    == 3
      referral_rate == FLit(3, 10)
      clv_direct    == avg_treatment * treatments
      clv_referral  == FMul(FFromInt(avg_treatment), referral_rate)
      total_clv     == FAdd(FFromInt(clv_direct), clv_referral)
  IN  <<Metric("Direct Revenue", "$" \o FormatInt0(clv_direct), ""),
        Metric("Referral Value", "$" \o FormatFloat0(clv_referral), ""),
        Metric("Total CLV", "$" \o FormatFloat0(total_clv), "")>>

(***************************************************************************)
(* DataFrame objects live in a heap (a sequence indexed by object id), so  *)
(* that copying and aliasing differ.                                       *)
(***************************************************************************)
\* mutant: no copy is taken, the result aliases the argument
DfAlias(heap, ref) == [heap |-> heap, ref |-> ref]

\* df.copy(): a new object with the same contents
DfCopy(heap, ref) == [heap |-> Append(heap, heap[ref]), ref |-> Len(heap) + 1]

\* obj[c] = vals on the object ref
DfAssign(heap, ref, c, type, vals) ==
  [heap EXCEPT ![ref] = SetColumn(@, c, type, vals)]

(***************************************************************************)
(* RoofMaxxPredictiveModel.prepare_features                                *)
(***************************************************************************)
\* if both columns are present:
\*   features['income_home_ratio'] = median_income / median_home_value
IncomeHomeRatio(heap, features) ==
  IF HasColumn(heap[features], "median_income")
       /\ HasColumn(heap[features], "median_home_value")
  THEN DfAssign(heap, features, "income_home_ratio", "float64",
                SeriesDiv(AsFloat(heap[features], "median_income"),
                          AsFloat(heap[features], "median_home_value")))
  ELSE heap

\* if both columns are present:
\*   features['population_density'] = population / housing_units
PopulationDensity(heap, features) ==
  IF HasColumn(heap[features], "population")
       /\ HasColumn(heap[features], "housing_units")
  THEN DfAssign(heap, features, "population_density", "float64",
                SeriesDiv(AsFloat(heap[features], "population"),
                          AsFloat(heap[features], "housing_units")))
  ELSE heap

\* the two conditional assignments on the copy
PrepareFeaturesFrom(features) ==
  [heap |-> PopulationDensity(IncomeHomeRatio(features.heap, features.ref),
                              features.ref),
   ref  |-> features.ref]

\* features = df.copy(), the assignments, return features
PrepareFeaturesOn(heap, df) == PrepareFeaturesFrom(DfCopy(heap, df))

(***************************************************************************)
(* RoofMaxxPredictiveModel.predict_market_penetration                      *)
(***************************************************************************)
FeatureCols ==
  <<"population", "median_income", "median_home_value",
    "homeownership_rate", "market_potential_annual">>

\* X[feature_cols] raises KeyError when a listed column is absent
MissingFeatureCols(X) == \E i \in 1..Len(FeatureCols) : ~HasColumn(X, FeatureCols[i])

\* the mean of the values that are not NaN (0/0 = NaN when there are none)
ColumnMean(vals) ==
  LET present == SelectSeq(vals, LAMBDA v : v.k # "nan")
  IN  NpDiv(FSum(present), FFromInt(Len(present)))

FillNa(vals) ==
  IF \A i \in 1..Len(vals) : vals[i].k # "nan" THEN vals
  ELSE LET mean == ColumnMean(vals)
       IN  [i \in 1..Len(vals) |-> IF vals[i].k = "nan" THEN mean ELSE vals[i]]

\* X[feature_cols].fillna(X[feature_cols].mean()) with the three added
\* columns; X has the feature columns.  Filling with a mean makes an int64
\* column float64 only where it had NaN, which an int64 column never has.
ModelMatrix(X, marketing_spend, months_in_market) ==
  LET n == NRows(X)
      selected ==
        DataFrame(FeatureCols,
                  [c \in {FeatureCols[i] : i \in 1..Len(FeatureCols)} |-> X.dtypes[c]],
                  [c \in {FeatureCols[i] : i \in 1..Len(FeatureCols)} |->
                     IF X.dtypes[c] = "float64" THEN FillNa(X.data[c]) ELSE X.data[c]])
      m1 == SetColumn(selected, "marketing_spend", "int64",
                      [i \in 1..n |-> marketing_spend])
      m2 == SetColumn(m1, "months_in_market", "int64",
                      [i \in 1..n |-> months_in_market])
  IN  SetColumn(m2, "marketing_per_capita", "float64",
                [i \in 1..n |-> NpDiv(FFromInt(marketing_spend),
                                      AsFloat(X, "population")[i])])

FMin(x, y) == IF FLe(x, y) THEN x ELSE y

\* model.fit(X_model, y_actual): scikit-learn's input validation raises
\* ValueError on an infinity or a NaN in the matrix or in the target
NonFinite(vals) == \E i \in 1..Len(vals) : vals[i].k # "fin"

FitRaises(X_model, y_actual) ==
  \/ NonFinite(y_actual)
  \/ \E i \in 1..Len(X_model.columns) :
       /\ X_model.dtypes[X_model.columns[i]] = "float64"
       /\ NonFinite(X_model.data[X_model.columns[i]])

\* y_potential = market_potential_annual * base_conversion
\*               * marketing_multiplier * time_multiplier
YPotential(X_model, months_in_market) ==
  LET base_conversion == FLit(2, 100)
      time_multiplier == FMin(PyDiv(FFromInt(months_in_market), FFromInt(24)),
                              FFromInt(1))
  IN  [i \in 1..NRows(X_model) |->
         LET marketing_multiplier ==
               FAdd(FFromInt(1),
                    FMul(X_model.data["marketing_per_capita"][i], FFromInt(10000)))
         IN  FMul(FMul(FMul(X_model.data["market_potential_annual"][i],
                            base_conversion),
                       marketing_multiplier),
                  time_multiplier)]

\* What follows np.random.seed(42) is the output of numpy's Mersenne Twister
\* and of scikit-learn's forest, neither of which is code of this
\* repository.  The model admits several outcomes for each: a stream of
\* variates in [0, 1) in quarters, and the two extremes of what a forest of
\* averaging trees returns on its own training rows (each row's target, or
\* the mean of all targets).
Streams == 0..3

StreamVariate(stream, i) == FLit((stream + i) % 4, 4)

\* np.random.uniform(low, high, n) = low + (high - low) * u
Uniform(low, high, stream, n) ==
  [i \in 1..n |-> FAdd(low, FMul(FSub(high, low), StreamVariate(stream, i)))]

\* np.random.randint(low, high) = low + floor((high - low) * u)
RandInt(low, high, stream, i) == low + ((high - low) * ((stream + i) % 4)) \div 4

\* the generator of a new process, seeded from the system's entropy
Unseeded == [seeded |-> FALSE, seed |-> 0, drawn |-> 0]

\* a generator that keeps its state when seeded
NpRandomSeedIgnored(g, seed) == g

\* np.random.seed(seed): the generator restarts the stream of that seed
NpRandomSeed(g, seed) == [seeded |-> TRUE, seed |-> seed, drawn |-> 0]

\* the generator after n draws
Drawn(g, n) == [g EXCEPT !.drawn = @ + n]

\* the streams the generator's next variates can come from: the rest of the
\* stream of 42 when it was seeded, any stream when it started from entropy
GeneratorStreams(g, seeded) ==
  IF g.seeded THEN {(seeded + g.drawn) % 4} ELSE Streams

ForestFits == {"memorised", "averaged"}

\* a registry that keeps the entry it already has
RegistryKeepsFirst(registry, key, value) == registry @@ (key :> value)

\* self.models[key] = value, self.maps[key] = value
RegistryStore(registry, key, value) == (key :> value) @@ registry

ForestPredict(fit, y_actual) ==
  IF fit = "memorised" THEN y_actual
  ELSE LET mean == NpDiv(FSum(y_actual), FFromInt(Len(y_actual)))
       IN  [i \in 1..Len(y_actual) |-> mean]

\* the eight importances sum to 1; one ranking per admitted fit
ForestImportances(fit) ==
  IF fit = "memorised"
  THEN Hundredths(<<10, 5, 4, 3, 40, 0, 0, 38>>)
  ELSE Hundredths(<<30, 6, 5, 4, 35, 0, 0, 20>>)

\* mutant: revenue taken from the market potential, not from the predictions
PenetrationResultsFromPotential(heap, X, predictions) ==
  LET results == DfCopy(heap, X)
      x  == heap[X]
      h1 == DfAssign(results.heap, results.ref, "predicted_annual_sales",
                     "float64", predictions)
      h2 == DfAssign(h1, results.ref, "predicted_revenue", "float64",
                     SeriesScale(x.data["market_potential_annual"], FFromInt(4500)))
      h3 == DfAssign(h2, results.ref, "market_share_percentage", "float64",
                     SeriesScale(SeriesDiv(predictions,
                                           x.data["market_potential_annual"]),
                                 FFromInt(100)))
  IN  [heap |-> h3, ref |-> results.ref]

\* results = X.copy() and its three added columns
PenetrationResults(heap, X, predictions) ==
  LET results == DfCopy(heap, X)
      x  == heap[X]
      h1 == DfAssign(results.heap, results.ref, "predicted_annual_sales",
                     "float64", predictions)
      h2 == DfAssign(h1, results.ref, "predicted_revenue", "float64",
                     SeriesScale(predictions, FFromInt(4500)))
      h3 == DfAssign(h2, results.ref, "market_share_percentage", "float64",
                     SeriesScale(SeriesDiv(predictions,
                                           x.data["market_potential_annual"]),
                                 FFromInt(100)))
  IN  [heap |-> h3, ref |-> results.ref]

\* the indices 1..n ordered by descending key (the keys are distinct or
\* ties keep their order)
RECURSIVE SortDescending(_, _)
SortDescending(keys, todo) ==
  IF todo = {} THEN <<>>
  ELSE LET best == CHOOSE i \in todo :
                     \A j \in todo :
                       \/ FLt(keys[j], keys[i])
                       \/ (keys[j] = keys[i] /\ i <= j)
       IN  <<best>> \o SortDescending(keys, todo \ {best})

\* pd.DataFrame({'feature', 'importance'}).sort_values('importance',
\* ascending=False)
FeatureImportance(X_model, importances) ==
  LET order == SortDescending(importances, 1..Len(importances))
  IN  DataFrame(<<"feature", "importance">>,
                [feature |-> "object", importance |-> "float64"],
                [feature    |-> [i \in 1..Len(order) |-> X_model.columns[order[i]]],
                 importance |-> [i \in 1..Len(order) |-> importances[order[i]]]])

(***************************************************************************)
(* GeospatialAnalyzer.create_market_heatmap                                *)
(***************************************************************************)
\* latitude and longitude literals, in ten-thousandths of a degree
WaCoordinates ==
  [King      |-> <<475480, -1219836>>,
   Pierce    |-> <<470676, -1221295>>,
   Snohomish |-> <<480420, -1217170>>,
   Spokane   |-> <<476588, -1174260>>,
   Clark     |-> <<457466, -1225194>>,
   Thurston  |-> <<469965, -1228890>>,
   Kitsap    |-> <<476477, -1226413>>,
   Yakima    |-> <<465890, -1205435>>,
   Whatcom   |-> <<488426, -1221361>>,
   Benton    |-> <<462632, -1195419>>]

\* format(v, ',.0f') raises ValueError when v is a str
Unformattable(df, c) == HasColumn(df, c) /\ df.dtypes[c] = "object"

\* row.get(c, 0) formatted with ',.0f'
RowGetFormatted(df, i, c) ==
  IF ~HasColumn(df, c) THEN FormatInt0(0)
  ELSE IF df.dtypes[c] = "object" THEN "ValueError"
  ELSE IF df.dtypes[c] = "int64" THEN FormatInt0(df.data[c][i])
  ELSE FormatFloat0(df.data[c][i])

\* row.get(metric, 0) / 100; a str metric has failed in the popup before
RowRadius(df, i, metric) ==
  IF ~HasColumn(df, metric) \/ Unformattable(df, metric) THEN FZero
  ELSE PyDiv(AsFloat(df, metric)[i], FFromInt(100))

CircleMarker(df, i, location_name, coords, metric) ==
  [location |-> coords,
   radius   |-> RowRadius(df, i, metric),
   popup    |-> [name             |-> location_name,
                 market_potential |-> RowGetFormatted(df, i, metric),
                 population       |-> RowGetFormatted(df, i, "population"),
                 median_income    |-> "$" \o RowGetFormatted(df, i, "median_income"),
                 qualified_roofs  |-> RowGetFormatted(df, i, "est_qualified_roofs")],
   color    |-> "blue"]

\* location_name = row['county'] if 'county' in row, else row['province']
LocationName(df, i) ==
  IF HasColumn(df, "county") THEN df.data["county"][i] ELSE df.data["province"][i]

\* the row is not skipped by "continue" and its name is in wa_coordinates
RowLocated(df, i) ==
  /\ HasColumn(df, "county") \/ HasColumn(df, "province")
  /\ LocationName(df, i) \in DOMAIN WaCoordinates

\* mutant: a name without coordinates is drawn at the map centre
RowMarkersAtCentre(df, i, metric) ==
  IF HasColumn(df, "county") \/ HasColumn(df, "province")
  THEN <<CircleMarker(df, i, LocationName(df, i),
                      IF RowLocated(df, i) THEN WaCoordinates[LocationName(df, i)]
                      ELSE <<475000, -1205000>>, metric)>>
  ELSE <<>>

\* the body of the loop over the rows: the markers row i adds (none or one)
RowMarkers(df, i, metric) ==
  IF RowLocated(df, i)
  THEN <<CircleMarker(df, i, LocationName(df, i),
                      WaCoordinates[LocationName(df, i)], metric)>>
  ELSE <<>>

\* the popup of the first located row raises ValueError when one of the four
\* columns it formats holds strings
HeatmapRaises(df, metric) ==
  /\ \E i \in 1..NRows(df) : RowLocated(df, i)
  /\ \E c \in {metric, "population", "median_income", "est_qualified_roofs"} :
       Unformattable(df, c)

RECURSIVE MarkersFrom(_, _, _)
MarkersFrom(df, i, metric) ==
  IF i > NRows(df) THEN <<>>
  ELSE RowMarkers(df, i, metric) \o MarkersFrom(df, i + 1, metric)

MarketHeatmap(df, metric) ==
  [location   |-> <<475000, -1205000>>,
   zoom_start |-> 7,
   tiles      |-> "OpenStreetMap",
   children   |-> MarkersFrom(df, 1, metric)]

(***************************************************************************)
(* optimize_territory_coverage and competitor_proximity_analysis           *)
(***************************************************************************)
\* np.pi = 7074237752028440 * 2^-51
NpPi == FRound(0, <<11544, 10376, 2029, 201>>, -51)

Marker(location, popup, color, icon) ==
  [kind |-> "Marker", location |-> location, popup |-> popup,
   icon |-> [color |-> color, icon |-> icon]]

TerritoryMap(dealer_location, service_radius_miles) ==
  [location   |-> dealer_location,
   zoom_start |-> 10,
   tiles      |-> "OpenStreetMap",
   children   |->
     <<Marker(dealer_location, "Dealer Location", "red", "home"),
       [kind        |-> "Circle",
        location    |-> dealer_location,
        radius      |-> FMul(FFromInt(service_radius_miles), FLit(160934, 100)),
        color       |-> "blue",
        fill        |-> TRUE,
        fillOpacity |-> FLit(2, 10),
        popup       |-> ToString(service_radius_miles) \o " mile service radius"]>>]

Coverage(service_radius_miles) ==
  [service_area_sq_miles     |-> FMul(NpPi, FFromInt(service_radius_miles ^ 2)),
   estimated_homes_in_radius |-> [kind |-> "none"],
   drive_time_minutes        |-> FDivFinite(FFromInt(service_radius_miles),
                                            FLit(75, 100))]

\* np.mean of a non-empty list of floats
NpMean(xs) == NpDiv(FSum(xs), FFromInt(Len(xs)))

CompetitorMap(dealer_locations, competitor_locations) ==
  [location   |->
     <<NpMean([i \in 1..Len(dealer_locations) |-> dealer_locations[i].lat]
                \o [i \in 1..Len(competitor_locations) |->
                      competitor_locations[i].lat]),
       NpMean([i \in 1..Len(dealer_locations) |-> dealer_locations[i].lon]
                \o [i \in 1..Len(competitor_locations) |->
                      competitor_locations[i].lon])>>,
   zoom_start |-> 8,
   tiles      |-> "OpenStreetMap",
   children   |->
     [i \in 1..Len(dealer_locations) |->
        Marker(<<dealer_locations[i].lat, dealer_locations[i].lon>>,
               "Roof Maxx: " \o dealer_locations[i].name, "blue", "star")]
       \o [i \in 1..Len(competitor_locations) |->
             Marker(<<competitor_locations[i].lat, competitor_locations[i].lon>>,
                    competitor_locations[i].type \o ": "
                      \o competitor_locations[i].name,
                    "red", "info-sign")]]

(***************************************************************************)
(* collect_weather_data: six draws from the process-wide generator for     *)
(* each location, in the order of the dict's keys.  stream is the stream    *)
(* the generator is at when the call starts.                               *)
(***************************************************************************)
WeatherColumn(locations, stream, j, low, high) ==
  [k \in 1..Len(locations) |->
     Uniform(FFromInt(low), FFromInt(high), stream + 6 * (k - 1) + j - 1, 1)[1]]

WeatherCount(locations, stream, j, low, high) ==
  [k \in 1..Len(locations) |-> RandInt(low, high, stream, 6 * (k - 1) + j)]

WeatherFrame(locations, stream) ==
  IF locations = <<>> THEN DataFrame(<<>>, <<>>, <<>>)
  ELSE DataFrame(
    <<"location", "latitude", "longitude", "avg_annual_precip_inches",
      "freeze_thaw_cycles", "avg_high_temp_summer", "avg_low_temp_winter",
      "snow_days_annual", "severe_weather_events">>,
    [location |-> "object", latitude |-> "float64", longitude |-> "float64",
     avg_annual_precip_inches |-> "float64", freeze_thaw_cycles |-> "int64",
     avg_high_temp_summer |-> "float64", avg_low_temp_winter |-> "float64",
     snow_days_annual |-> "int64", severe_weather_events |-> "int64"],
    [location  |-> [k \in 1..Len(locations) |-> locations[k].name],
     latitude  |-> [k \in 1..Len(locations) |-> locations[k].lat],
     longitude |-> [k \in 1..Len(locations) |-> locations[k].lon],
     avg_annual_precip_inches |-> WeatherColumn(locations, stream, 1, 30, 50),
     freeze_thaw_cycles       |-> WeatherCount(locations, stream, 2, 20, 80),
     avg_high_temp_summer     |-> WeatherColumn(locations, stream, 3, 75, 85),
     avg_low_temp_winter      |-> WeatherColumn(locations, stream, 4, 25, 40),
     snow_days_annual         |-> WeatherCount(locations, stream, 5, 5, 30),
     severe_weather_events    |-> WeatherCount(locations, stream, 6, 2, 15)])

(***************************************************************************)
(* collect_housing_age_data                                                *)
(***************************************************************************)
AgeRanges ==
  <<"0-5 years", "6-10 years", "11-15 years", "16-20 years",
    "21-30 years", "31-50 years", "51+ years">>

\* a collector that takes every region but 'canada' for Washington
HousingAgeDataCanadaOnly(region) ==
  IF region # "canada"
  THEN DataFrame(<<"age_range", "percentage", "avg_roof_age">>,
                 [age_range |-> "object", percentage |-> "int64",
                  avg_roof_age |-> "int64"],
                 [age_range    |-> AgeRanges,
                  percentage   |-> <<8, 12, 15, 18, 25, 18, 4>>,
                  avg_roof_age |-> <<3, 8, 13, 18, 25, 20, 25>>])
  ELSE DataFrame(<<"age_range", "percentage", "avg_roof_age">>,
                 [age_range |-> "object", percentage |-> "int64",
                  avg_roof_age |-> "int64"],
                 [age_range    |-> AgeRanges,
                  percentage   |-> <<7, 11, 14, 17, 27, 19, 5>>,
                  avg_roof_age |-> <<3, 8, 13, 18, 26, 22, 27>>])

\* the data dict: the Washington figures for 'washington', the Canada
\* figures in the else branch
HousingAgeData(region) ==
  IF region = "washington"
  THEN DataFrame(<<"age_range", "percentage", "avg_roof_age">>,
                 [age_range |-> "object", percentage |-> "int64",
                  avg_roof_age |-> "int64"],
                 [age_range    |-> AgeRanges,
                  percentage   |-> <<8, 12, 15, 18, 25, 18, 4>>,
                  avg_roof_age |-> <<3, 8, 13, 18, 25, 20, 25>>])
  ELSE DataFrame(<<"age_range", "percentage", "avg_roof_age">>,
                 [age_range |-> "object", percentage |-> "int64",
                  avg_roof_age |-> "int64"],
                 [age_range    |-> AgeRanges,
                  percentage   |-> <<7, 11, 14, 17, 27, 19, 5>>,
                  avg_roof_age |-> <<3, 8, 13, 18, 26, 22, 27>>])

\* Series.isin(values)
IsIn(series, values) == [i \in 1..Len(series) |-> series[i] \in values]

\* df['in_treatment_window'] = df['age_range'].isin([...])
HousingAgeFrame(df) ==
  SetColumn(df, "in_treatment_window", "bool",
            IsIn(df.data["age_range"], {"6-10 years", "11-15 years"}))

(***************************************************************************)
(* State.  One behaviour is one request to the library: Init draws the     *)
(* operation and its arguments, the operation's action computes the        *)
(* outcome.                                                                *)
(***************************************************************************)
VARIABLES
  pc,       \* "call": the request is pending; "done": the operation has ended
  op,       \* the operation requested
  args,     \* its arguments
  outcome,  \* "pending", "returned", or the name of the exception raised
  result,   \* the value returned
  frames,   \* the DataFrame objects alive, by object id
  models,   \* RoofMaxxPredictiveModel.models
  maps,     \* GeospatialAnalyzer.maps
  rng,      \* numpy's process-wide random generator: its seed and position
  oracle,   \* what the libraries compute from the seed 42: the generator's
            \* stream and the forest's fit, the same throughout a behaviour
  history   \* the calls that have ended before the current one, in order

vars == <<pc, op, args, outcome, result, frames, models, maps, rng, oracle, history>>

NoResult == [kind |-> "none"]

\* bounds of the request space
MaxSpendSteps == 3

MaxSeoSteps == 2

MaxContentSteps == 2

MaxReviewSteps == 2

MaxCostSteps == 4

MaxTreatments == 3

MaxReferralTenths == 4

MaxBudgetSteps == 8

MaxPeriodSteps == 1

MaxFeatureRows == 2

MaxMarketingSteps == 1

MaxMonthSteps == 3

MaxRadiusSteps == 3

Regions == {"washington", "canada", "oregon", "Washington", "WA", ""}

SpendValues == {1000 * i : i \in 0..MaxSpendSteps}

\* the documented 0..100 range and one score below it
SeoValues == {-50} \cup {50 * i : i \in 0..MaxSeoSteps}

ContentValues == {10 * i : i \in 0..MaxContentSteps}

ReviewValues == {10 * i : i \in 0..MaxReviewSteps}

DemographicRequests ==
  {[op |-> "collect_demographic_data", args |-> [region |-> r], frames |-> <<>>] :
     r \in Regions}

ForecastRequests ==
  {[op |-> "forecast_lead_generation",
    args |-> [digital_spend |-> d, seo_score |-> s,
              content_pieces |-> c, review_count |-> r],
    frames |-> <<>>] :
     d \in SpendValues, s \in SeoValues, c \in ContentValues, r \in ReviewValues}

\* a caller's historical series, passed through as it is
HistoricalFrame ==
  DataFrame(<<"month", "jobs">>, [month |-> "object", jobs |-> "int64"],
            [month |-> <<"Jan", "Feb", "Mar">>, jobs |-> <<12, 15, 31>>])

None == [kind |-> "none"]

Ref(i) == [kind |-> "frame", ref |-> i]

SeasonalRequests ==
  {[op |-> "seasonal_demand_forecast", args |-> [historical_data |-> None],
    frames |-> <<>>],
   [op |-> "seasonal_demand_forecast", args |-> [historical_data |-> Ref(1)],
    frames |-> <<HistoricalFrame>>],
   [op |-> "seasonal_demand_forecast", args |-> [historical_data |-> Ref(1)],
    frames |-> <<SeasonalFrame>>]}

CostValues == {1500 * i : i \in 0..MaxCostSteps}

TreatmentValues == 0..MaxTreatments

ReferralRates == {FLit(i, 10) : i \in 0..MaxReferralTenths}

\* called with all three arguments, or with none (the defaults apply)
CLVRequests ==
  {[op |-> "calculate_customer_lifetime_value",
    args |-> [passed |-> TRUE, avg_treatment_cost |-> c, treatments |-> t,
              referral_rate |-> r],
    frames |-> <<>>] :
     c \in CostValues, t \in TreatmentValues, r \in ReferralRates}
  \cup {[op |-> "calculate_customer_lifetime_value", args |-> [passed |-> FALSE],
         frames |-> <<>>]}

Territories ==
  {"Washington - King County", "Washington - Pierce County",
   "Washington - Snohomish County", "Canada - British Columbia",
   "Canada - Ontario", "Canada - Alberta"}

\* the number_input: 1000..50000 in steps of 500
BudgetValues == {1000 + 500 * i : i \in 0..MaxBudgetSteps} \cup {50000}

\* the analysis period, in days back from today
PeriodDays == {90 - 60 * i : i \in 0..MaxPeriodSteps}

DashboardRequests ==
  {[op |-> "streamlit_dashboard",
    args |-> [territory |-> t, date_range |-> p, monthly_marketing |-> b],
    frames |-> <<>>] :
     t \in Territories, p \in PeriodDays, b \in BudgetValues}

\* df.drop(columns=...) and df.head(n), used to build the callers' tables
RECURSIVE Without(_, _)
Without(cols, dropped) ==
  IF cols = <<>> THEN <<>>
  ELSE IF Head(cols) \in dropped THEN Without(Tail(cols), dropped)
  ELSE <<Head(cols)>> \o Without(Tail(cols), dropped)

DropColumns(df, dropped) ==
  LET keep == Without(df.columns, dropped)
      names == {keep[i] : i \in 1..Len(keep)}
  IN  DataFrame(keep, [c \in names |-> df.dtypes[c]], [c \in names |-> df.data[c]])

FrameHead(df, n) ==
  DataFrame(df.columns, df.dtypes,
            [c \in DOMAIN df.data |-> SubSeq(df.data[c], 1, n)])

SourceColumns == {"median_income", "median_home_value", "population", "housing_units"}

\* a table with county names in and out of the coordinate table, and a zero
\* home value and a zero housing-unit count
MixedFrame ==
  DataFrame(<<"county", "population", "median_income", "median_home_value",
              "housing_units", "market_potential_annual">>,
            [county |-> "object", population |-> "int64", median_income |-> "int64",
             median_home_value |-> "int64", housing_units |-> "int64",
             market_potential_annual |-> "float64"],
            [county            |-> <<"King", "Multnomah", "Pierce", "king", "Benton">>,
             population        |-> <<2269675, 815428, 0, 1200, 206873>>,
             median_income     |-> <<106326, 76290, 0, 51000, 84867>>,
             median_home_value |-> <<686400, 0, 0, 250000, 338700>>,
             housing_units     |-> <<953923, 0, 0, 500, 87654>>,
             market_potential_annual |->
               <<FLit(256591, 10), FLit(0, 1), FLit(25, 10), FLit(35, 10),
                 FLit(-10050, 100)>>])

\* the tables callers pass to prepare_features: the collector's tables, whole
\* or with source columns dropped
FeatureTables ==
  {DropColumns(FrameHead(WashingtonFrame, h), d) :
     h \in 1..MaxFeatureRows, d \in SUBSET SourceColumns}
    \cup {CanadaFrame, MixedFrame}

FeatureRequests ==
  {[op |-> "prepare_features", args |-> [df |-> Ref(1)], frames |-> <<t>>] :
     t \in FeatureTables}

PenetrationTables ==
  {FrameHead(WashingtonFrame, h) : h \in 1..MaxFeatureRows}
    \cup {WashingtonFrame, CanadaFrame,
          DropColumns(WashingtonFrame, {"market_potential_annual"}),
          SetColumn(FrameHead(WashingtonFrame, 2), "population", "int64",
                    <<0, 921130>>)}

MarketingSpends == {1000 + 2000 * i : i \in 0..MaxMarketingSteps}

MonthsInMarket == {6 + 6 * i : i \in 0..MaxMonthSteps}

PenetrationRequests ==
  {[op |-> "predict_market_penetration",
    args |-> [demographic_data |-> Ref(1), marketing_spend |-> m,
              months_in_market |-> k],
    frames |-> <<t>>] :
     t \in PenetrationTables, m \in MarketingSpends, k \in MonthsInMarket}

HeatmapTables ==
  {WashingtonFrame, CanadaFrame, MixedFrame,
   DropColumns(WashingtonFrame, {"county"}),
   DropColumns(WashingtonFrame, {"population", "median_income"}),
   SetColumn(FrameHead(CanadaFrame, 3), "county", "object",
             <<"Clark", "Ontario", "Yakima">>),
   SetColumn(FrameHead(CanadaFrame, 2), "county", "object",
             <<"Ontario", "Multnomah">>)}
    \cup {FrameHead(WashingtonFrame, h) : h \in 0..MaxFeatureRows}

HeatmapMetrics ==
  {"market_potential_annual", "population", "est_qualified_roofs", "no_such_column",
   "county"}

HeatmapRequests ==
  {[op |-> "create_market_heatmap", args |-> [demographic_data |-> Ref(1), metric |-> m],
    frames |-> <<t>>] :
     t \in HeatmapTables, m \in HeatmapMetrics}

\* (lat, lon, name) tuples
WeatherLocations ==
  <<[lat |-> FLit(476, 10), lon |-> FLit(-1223, 10), name |-> "Seattle"],
    [lat |-> FLit(493, 10), lon |-> FLit(-1231, 10), name |-> "Vancouver"]>>

WeatherRequests ==
  {[op |-> "collect_weather_data",
    args |-> [locations |-> SubSeq(WeatherLocations, 1, n)], frames |-> <<>>] :
     n \in 0..Len(WeatherLocations)}

\* service radii in miles; 30 is the default
ServiceRadii == {10 * i : i \in 0..MaxRadiusSteps}

CompetitorLocations ==
  <<[lat |-> FLit(472, 10), lon |-> FLit(-1224, 10), name |-> "Tacoma Roofing",
     type |-> "Replacement"],
    [lat |-> FLit(480, 10), lon |-> FLit(-1222, 10), name |-> "Everett Coatings",
     type |-> "Coating"]>>

AnalyzerRequests ==
  {[op |-> "optimize_territory_coverage",
    args |-> [dealer_location |-> <<WeatherLocations[k].lat, WeatherLocations[k].lon>>,
              service_radius_miles |-> r],
    frames |-> <<>>] : k \in 1..Len(WeatherLocations), r \in ServiceRadii}
  \cup
  {[op |-> "competitor_proximity_analysis",
    args |-> [dealer_locations     |-> SubSeq(WeatherLocations, 1, d),
              competitor_locations |-> SubSeq(CompetitorLocations, 1, c)],
    frames |-> <<>>] :
     d \in 1..Len(WeatherLocations), c \in 0..Len(CompetitorLocations)}

HousingRequests ==
  {[op |-> "collect_housing_age_data", args |-> [region |-> r], frames |-> <<>>] :
     r \in Regions}

Requests ==
  DemographicRequests \cup ForecastRequests \cup SeasonalRequests
    \cup HousingRequests \cup WeatherRequests \cup AnalyzerRequests
    \cup CLVRequests \cup DashboardRequests \cup FeatureRequests
    \cup PenetrationRequests \cup HeatmapRequests

Init ==
  /\ \E rq \in Requests :
       /\ op = rq.op
       /\ args = rq.args
       /\ frames = rq.frames
  /\ pc = "call"
  /\ outcome = "pending"
  /\ result = NoResult
  /\ models = <<>>
  /\ maps = <<>>
  /\ rng = Unseeded
  /\ oracle \in [stream : Streams, fit : ForestFits]
  /\ history = <<>>

\* collect_demographic_data: a region other than the two literals binds no
\* df, and "return df" raises UnboundLocalError
CollectDemographicData ==
  /\ pc = "call"
  /\ op = "collect_demographic_data"
  /\ IF args.region = "washington"
     THEN /\ frames' = Append(frames, WashingtonFrame)
          /\ result' = [kind |-> "frame", ref |-> Len(frames) + 1]
          /\ outcome' = "returned"
     ELSE IF args.region = "canada"
     THEN /\ frames' = Append(frames, CanadaFrame)
          /\ result' = [kind |-> "frame", ref |-> Len(frames) + 1]
          /\ outcome' = "returned"
     ELSE /\ outcome' = "UnboundLocalError"
          /\ result' = NoResult
          /\ UNCHANGED frames
  /\ pc' = "done"
  /\ UNCHANGED <<oracle, history, op, args, models, maps, rng>>

CollectWeatherData ==
  /\ pc = "call"
  /\ op = "collect_weather_data"
  /\ \E stream \in GeneratorStreams(rng, oracle.stream) :
       frames' = Append(frames, WeatherFrame(args.locations, stream))
  /\ result' = Ref(Len(frames) + 1)
  /\ rng' = Drawn(rng, 6 * Len(args.locations))
  /\ outcome' = "returned"
  /\ pc' = "done"
  /\ UNCHANGED <<oracle, history, op, args, models, maps>>

CollectHousingAgeData ==
  /\ pc = "call"
  /\ op = "collect_housing_age_data"
  /\ frames' = Append(frames, HousingAgeFrame(HousingAgeData(args.region)))
  /\ result' = Ref(Len(frames) + 1)
  /\ outcome' = "returned"
  /\ pc' = "done"
  /\ UNCHANGED <<oracle, history, op, args, models, maps, rng>>

ForecastLeadGeneration ==
  /\ pc = "call"
  /\ op = "forecast_lead_generation"
  /\ \E monthly_leads \in {MonthlyLeads(args.digital_spend, args.seo_score,
                                         args.content_pieces, args.review_count)} :
     \E projected_sales \in {ProjectedSales(LeadBreakdown(monthly_leads))} :
       IF ForecastRaises(args.digital_spend, monthly_leads, projected_sales)
       THEN /\ outcome' = "ZeroDivisionError"
            /\ result' = NoResult
       ELSE /\ outcome' = "returned"
            /\ result' = LeadForecast(args.digital_spend, monthly_leads)
  /\ pc' = "done"
  /\ UNCHANGED <<oracle, history, op, args, frames, models, maps, rng>>

\* seasonal_demand_forecast: a new table when historical_data is None,
\* otherwise the caller's object itself
SeasonalDemandForecast ==
  /\ pc = "call"
  /\ op = "seasonal_demand_forecast"
  /\ IF args.historical_data = None
     THEN /\ frames' = Append(frames, SeasonalFrame)
          /\ result' = Ref(Len(frames) + 1)
     ELSE /\ result' = args.historical_data
          /\ UNCHANGED frames
  /\ outcome' = "returned"
  /\ pc' = "done"
  /\ UNCHANGED <<oracle, history, op, args, models, maps, rng>>

CalculateCustomerLifetimeValue ==
  /\ pc = "call"
  /\ op = "calculate_customer_lifetime_value"
  /\ LET a == IF args.passed THEN args ELSE DefaultCLVArgs
     IN  result' = CustomerLifetimeValue(a.avg_treatment_cost, a.treatments,
                                         a.referral_rate)
  /\ outcome' = "returned"
  /\ pc' = "done"
  /\ UNCHANGED <<oracle, history, op, args, frames, models, maps, rng>>

\* one run of the dashboard script; the Predictive Forecasts tab draws twelve
\* normal variates from the process-wide generator
StreamlitDashboard ==
  /\ pc = "call"
  /\ op = "streamlit_dashboard"
  /\ result' = [kind      |-> "page",
                executive |-> ExecutiveMetrics(args.territory, args.date_range,
                                               args.monthly_marketing),
                lead_sources |-> LeadSources,
                clv_panel |-> CLVPanelMetrics]
  /\ rng' = Drawn(rng, 12)
  /\ outcome' = "returned"
  /\ pc' = "done"
  /\ UNCHANGED <<oracle, history, op, args, frames, models, maps>>

PrepareFeatures ==
  /\ pc = "call"
  /\ op = "prepare_features"
  /\ \E features \in {PrepareFeaturesOn(frames, args.df.ref)} :
       /\ frames' = features.heap
       /\ result' = Ref(features.ref)
  /\ outcome' = "returned"
  /\ pc' = "done"
  /\ UNCHANGED <<oracle, history, op, args, models, maps, rng>>

\* predict_market_penetration.  X[feature_cols] raises KeyError before the
\* generator is seeded; otherwise the generator is reseeded with 42 and n
\* variates are drawn, the forest is fitted and stored under 'penetration'.
PredictMarketPenetration ==
  /\ pc = "call"
  /\ op = "predict_market_penetration"
  /\ \E X \in {PrepareFeaturesOn(frames, args.demographic_data.ref)} :
       IF MissingFeatureCols(X.heap[X.ref])
       THEN /\ frames' = X.heap
            /\ outcome' = "KeyError"
            /\ result' = NoResult
            /\ UNCHANGED <<models, rng>>
       ELSE \E X_model \in {ModelMatrix(X.heap[X.ref], args.marketing_spend,
                                         args.months_in_market)} :
            \E g \in {NpRandomSeed(rng, 42)} :
            \E stream \in GeneratorStreams(g, oracle.stream) :
            \E y_actual \in {SeriesMul(YPotential(X_model, args.months_in_market),
                                        Uniform(FLit(7, 10), FLit(13, 10),
                                                stream, NRows(X_model)))} :
            IF FitRaises(X_model, y_actual)
            THEN /\ frames' = X.heap
                 /\ outcome' = "ValueError"
                 /\ result' = NoResult
                 /\ rng' = Drawn(g, NRows(X_model))
                 /\ UNCHANGED models
            ELSE
            \E results \in {PenetrationResults(X.heap, X.ref,
                                                ForestPredict(oracle.fit, y_actual))} :
              /\ frames' = Append(results.heap,
                                  FeatureImportance(X_model,
                                                    ForestImportances(oracle.fit)))
              /\ result' = [kind               |-> "penetration",
                            results            |-> Ref(results.ref),
                            feature_importance |-> Ref(Len(results.heap) + 1)]
              /\ models' = RegistryStore(models, "penetration",
                                         [estimator    |-> "RandomForestRegressor",
                                          n_estimators |-> 100,
                                          random_state |-> 42,
                                          X            |-> X_model,
                                          y            |-> y_actual,
                                          fit          |-> oracle.fit])
              /\ rng' = Drawn(g, NRows(X_model))
              /\ outcome' = "returned"
  /\ pc' = "done"
  /\ UNCHANGED <<oracle, history, op, args, maps>>

CreateMarketHeatmap ==
  /\ pc = "call"
  /\ op = "create_market_heatmap"
  /\ IF HeatmapRaises(frames[args.demographic_data.ref], args.metric)
     THEN /\ outcome' = "ValueError"
          /\ result' = NoResult
          /\ UNCHANGED maps
     ELSE \E m \in {MarketHeatmap(frames[args.demographic_data.ref], args.metric)} :
            /\ maps' = RegistryStore(maps, "opportunity_heatmap", m)
            /\ result' = [kind |-> "map", map |-> m]
            /\ outcome' = "returned"
  /\ pc' = "done"
  /\ UNCHANGED <<oracle, history, op, args, frames, models, rng>>

\* optimize_territory_coverage returns the map and the coverage dict; it
\* does not write self.maps
OptimizeTerritoryCoverage ==
  /\ pc = "call"
  /\ op = "optimize_territory_coverage"
  /\ result' = [kind     |-> "map_coverage",
                map      |-> TerritoryMap(args.dealer_location,
                                          args.service_radius_miles),
                coverage |-> Coverage(args.service_radius_miles)]
  /\ outcome' = "returned"
  /\ pc' = "done"
  /\ UNCHANGED <<oracle, history, op, args, frames, models, maps, rng>>

\* competitor_proximity_analysis returns the map; it does not write
\* self.maps
CompetitorProximityAnalysis ==
  /\ pc = "call"
  /\ op = "competitor_proximity_analysis"
  /\ result' = [kind |-> "map",
                map  |-> CompetitorMap(args.dealer_locations,
                                       args.competitor_locations)]
  /\ outcome' = "returned"
  /\ pc' = "done"
  /\ UNCHANGED <<oracle, history, op, args, frames, models, maps, rng>>

Next ==
  \/ PrepareFeatures
  \/ PredictMarketPenetration
  \/ CreateMarketHeatmap
  \/ OptimizeTerritoryCoverage
  \/ CompetitorProximityAnalysis
  \/ CollectDemographicData
  \/ CollectHousingAgeData
  \/ CollectWeatherData
  \/ ForecastLeadGeneration
  \/ SeasonalDemandForecast
  \/ CalculateCustomerLifetimeValue
  \/ StreamlitDashboard

Spec == Init /\ [][Next]_vars

(***************************************************************************)
(* A session: one process in which a sequence of calls is made on one      *)
(* RoofMaxxPredictiveModel and one MarketResearchCollector, over tables    *)
(* the caller holds.  Every call that has ended is kept in history.        *)
(***************************************************************************)
MaxCalls == 2

\* the caller's tables: a collector row, the same without a feature column,
\* and the same with a zero population
SessionFrames ==
  <<FrameHead(WashingtonFrame, 1),
    DropColumns(FrameHead(WashingtonFrame, 1), {"market_potential_annual"}),
    SetColumn(FrameHead(WashingtonFrame, 1), "population", "int64", <<0>>)>>

SessionRequests ==
  {[op |-> "predict_market_penetration",
    args |-> [demographic_data |-> Ref(1), marketing_spend |-> m,
              months_in_market |-> 12]] : m \in {1000, 3000}}
  \cup
  {[op |-> "predict_market_penetration",
    args |-> [demographic_data |-> Ref(t), marketing_spend |-> 1000,
              months_in_market |-> 12]] : t \in {2, 3}}
  \cup
  {[op |-> "prepare_features", args |-> [df |-> Ref(1)]],
   [op |-> "forecast_lead_generation",
    args |-> [digital_spend |-> 1000, seo_score |-> 50, content_pieces |-> 10,
              review_count |-> 10]],
   [op |-> "seasonal_demand_forecast", args |-> [historical_data |-> None]],
   [op |-> "collect_weather_data",
    args |-> [locations |-> SubSeq(WeatherLocations, 1, 1)]]}

\* a new process: the first call is pending, nothing is registered, the
\* generator is unseeded
StartWith(requests) ==
  /\ \E rq \in requests :
       /\ op = rq.op
       /\ args = rq.args
  /\ frames = SessionFrames
  /\ pc = "call"
  /\ outcome = "pending"
  /\ result = NoResult
  /\ models = <<>>
  /\ maps = <<>>
  /\ rng = Unseeded
  /\ oracle \in [stream : Streams, fit : ForestFits]
  /\ history = <<>>

\* the call has ended and the caller makes the next one
NextCallFrom(requests, max_calls) ==
  /\ pc = "done"
  /\ Len(history) + 1 < max_calls
  /\ history' = Append(history, [op |-> op, args |-> args, outcome |-> outcome,
                                  result |-> result])
  /\ \E rq \in requests :
       /\ op' = rq.op
       /\ args' = rq.args
  /\ pc' = "call"
  /\ outcome' = "pending"
  /\ result' = NoResult
  /\ UNCHANGED <<frames, models, maps, rng, oracle>>

SessionInit == StartWith(SessionRequests)

NextCall == NextCallFrom(SessionRequests, MaxCalls)

SessionNext ==
  \/ NextCall
  \/ PrepareFeatures
  \/ PredictMarketPenetration
  \/ ForecastLeadGeneration
  \/ SeasonalDemandForecast
  \/ CollectWeatherData

SessionSpec == SessionInit /\ [][SessionNext]_vars

(***************************************************************************)
(* The operations that use numpy's process-wide generator, in longer       *)
(* sequences: predict_market_penetration seeds it and draws from it,       *)
(* collect_weather_data draws from it.                                     *)
(***************************************************************************)
MaxGeneratorCalls == 3

GeneratorRequests ==
  {[op |-> "predict_market_penetration",
    args |-> [demographic_data |-> Ref(1), marketing_spend |-> m,
              months_in_market |-> 12]] : m \in {1000, 3000}}
  \cup
  {[op |-> "collect_weather_data",
    args |-> [locations |-> SubSeq(WeatherLocations, 1, 1)]]}

GeneratorInit == StartWith(GeneratorRequests)

NextGeneratorCall == NextCallFrom(GeneratorRequests, MaxGeneratorCalls)

GeneratorNext ==
  \/ NextGeneratorCall
  \/ PredictMarketPenetration
  \/ CollectWeatherData

GeneratorSpec == GeneratorInit /\ [][GeneratorNext]_vars

(***************************************************************************)
(* Properties                                                              *)
(***************************************************************************)
Done(o) == pc = "done" /\ op = o

FAbs(x) == IF x.k = "fin" /\ x.s = 1 THEN FNeg(x) ELSE x

\* |x - num/den| <= 1
WithinOne(x, num, den) == FLe(FAbs(FSub(x, FLit(num, den))), FFromInt(1))

\* the Python exceptions that are the spec's InvalidInput: section 7 files a
\* zero denominator of a ratio under InvalidInput and section 4.2 calls it
\* "DivisionByZero-equivalent"
InvalidInput == {"InvalidInput", "ZeroDivisionError"}

\* C1: collect_demographic_data with a region other than 'washington' or
\* 'canada' fails with an InvalidInput error naming the region: no dataset,
\* no raw internal fault.
C1_UnknownRegionIsInvalidInput ==
  (Done("collect_demographic_data") /\ args.region \notin {"washington", "canada"})
    => (outcome \in InvalidInput /\ result = NoResult)

ForecastArgsLeads ==
  MonthlyLeads(args.digital_spend, args.seo_score,
               args.content_pieces, args.review_count)

\* C2: forecast_lead_generation fails, returning no LeadForecastResult,
\* whenever digital spend is zero or the monthly lead count or the projected
\* sales count it computes is zero.
C2_ZeroDenominatorFails ==
  (Done("forecast_lead_generation")
     /\ (\/ args.digital_spend = 0
         \/ FIsZero(ForecastArgsLeads)
         \/ FIsZero(ProjectedSales(LeadBreakdown(ForecastArgsLeads)))))
    => (outcome \in InvalidInput /\ result = NoResult)

\* C2 witness: a non-zero spend whose lead count is zero has failed
C2_Witness ==
  /\ Done("forecast_lead_generation")
  /\ args.digital_spend > 0
  /\ FIsZero(ForecastArgsLeads)
  /\ outcome = "ZeroDivisionError"

WashingtonReturned ==
  Done("collect_demographic_data") /\ args.region = "washington" /\ outcome = "returned"

\* the row of King County in the returned table
KingRow(df) == CHOOSE i \in 1..NRows(df) : df.data["county"][i] = "King"

DerivedChain(df, i, qualify, replacement) ==
  /\ df.data["housing_units"][i] = 953923
  /\ df.data["homeownership_rate"][i] = FLit(61, 100)
  /\ df.data["est_qualified_roofs"][i] =
       FMul(df.data["est_asphalt_roofs"][i], qualify)
  /\ df.data["market_potential_annual"][i] =
       FMul(df.data["est_qualified_roofs"][i], replacement)

\* C3 as stated: King County's est_asphalt_roofs is within one roof of
\* 407,125.7, est_qualified_roofs is est_asphalt_roofs x 0.90 and
\* market_potential_annual is est_qualified_roofs x 0.07.
C3_KingAsphaltRoofsAsStated ==
  WashingtonReturned =>
    LET df == frames[result.ref]
        i  == KingRow(df)
    IN  /\ WithinOne(df.data["est_asphalt_roofs"][i], 4071257, 10)
        /\ DerivedChain(df, i, FLit(90, 100), FLit(7, 100))

\* C3 amended: King County's est_asphalt_roofs (953923 x 0.61 x 0.70) is
\* within one roof of 407,325.1, est_qualified_roofs is est_asphalt_roofs x
\* 0.90 and market_potential_annual is est_qualified_roofs x 0.07.
C3_KingAsphaltRoofs ==
  WashingtonReturned =>
    LET df == frames[result.ref]
        i  == KingRow(df)
    IN  /\ WithinOne(df.data["est_asphalt_roofs"][i], 4073251, 10)
        /\ DerivedChain(df, i, FLit(90, 100), FLit(7, 100))

\* C3 witness: the Washington table has been returned with a King row
C3_Witness ==
  /\ WashingtonReturned
  /\ \E i \in 1..NRows(frames[result.ref]) :
       frames[result.ref].data["county"][i] = "King"

ForecastReturned == Done("forecast_lead_generation") /\ outcome = "returned"

\* C5: in every result of forecast_lead_generation the three tiers add up to
\* the total exactly: hot_leads + warm_leads + cold_leads == total_leads.
C5_TiersSumToTotal ==
  ForecastReturned =>
    FEq(FAdd(FAdd(result.leads.hot_leads, result.leads.warm_leads),
             result.leads.cold_leads),
        result.leads.total_leads)

\* C6: the total monthly leads returned is non-decreasing in each of
\* digital_spend, seo_score, content_pieces and review_count, the other three
\* fixed, over non-negative inputs, and each of the seo, content and review
\* multipliers is at least 1.  Checked against the next value up (by one and
\* by one grid step) in each input.
C6_LeadsMonotone ==
  (ForecastReturned /\ args.seo_score >= 0) =>
    LET d == args.digital_spend
        s == args.seo_score
        c == args.content_pieces
        r == args.review_count
        t == result.leads.total_leads
    IN  /\ \A u \in {1, 1000} : FLe(t, MonthlyLeads(d + u, s, c, r))
        /\ \A u \in {1, 50} : FLe(t, MonthlyLeads(d, s + u, c, r))
        /\ \A u \in {1, 10} : FLe(t, MonthlyLeads(d, s, c + u, r))
        /\ \A u \in {1, 10} : FLe(t, MonthlyLeads(d, s, c, r + u))
        /\ FLe(FFromInt(1), SeoMultiplier(s))
        /\ FLe(FFromInt(1), ContentMultiplier(c))
        /\ FLe(FFromInt(1), ReviewMultiplier(r))

\* C6 witness: a returned forecast with reviews strictly above the forecast
\* for the same inputs without reviews
C6_Witness ==
  /\ ForecastReturned
  /\ args.seo_score >= 0
  /\ args.review_count > 0
  /\ FLt(MonthlyLeads(args.digital_spend, args.seo_score, args.content_pieces, 0),
         result.leads.total_leads)

\* |x - n| <= 10^-9
NearInt(x, n) == FLe(FAbs(FSub(x, FFromInt(n))), FLit(1, 1000000000))

\* C4: the twelve seasonal indices of the table returned when no historical
\* data is given sum to 12.0, that is, average 1.0 (within 10^-9).
C4_SeasonalIndicesAverageOne ==
  (Done("seasonal_demand_forecast") /\ args.historical_data = None) =>
    LET idx == frames[result.ref].data["seasonal_index"]
    IN  /\ Len(idx) = 12
        /\ NearInt(FSum(idx), 12)
        /\ NearInt(PyDiv(FSum(idx), FFromInt(12)), 1)

\* C7: calculate_customer_lifetime_value returns direct_revenue = cost x
\* treatments, referral_value = cost x referral_rate, total_clv = their sum
\* and timespan_years = treatments x 5; with the defaults (4500, 3, 0.3) it
\* returns 13500, 1350, 14850 and 15, and the dashboard's CLV panel shows
\* $13,500, $1,350 and $14,850.
C7_CustomerLifetimeValue ==
  /\ Done("calculate_customer_lifetime_value") =>
       /\ outcome = "returned"
       /\ args.passed =>
            /\ result.direct_revenue = args.avg_treatment_cost * args.treatments
            /\ result.referral_value =
                 FMul(FFromInt(args.avg_treatment_cost), args.referral_rate)
            /\ result.timespan_years = args.treatments * 5
       /\ result.total_clv =
            FAdd(FFromInt(result.direct_revenue), result.referral_value)
       /\ (\/ ~args.passed
           \/ /\ args.avg_treatment_cost = 4500
              /\ args.treatments = 3
              /\ args.referral_rate = FLit(3, 10)) =>
            /\ result.direct_revenue = 13500
            /\ result.referral_value = FFromInt(1350)
            /\ result.total_clv = FFromInt(14850)
            /\ result.timespan_years = 15
  /\ Done("streamlit_dashboard") =>
       /\ Len(result.clv_panel) = 3
       /\ result.clv_panel[1].label = "Direct Revenue"
       /\ result.clv_panel[1].value = "$13,500"
       /\ result.clv_panel[2].label = "Referral Value"
       /\ result.clv_panel[2].value = "$1,350"
       /\ result.clv_panel[3].label = "Total CLV"
       /\ result.clv_panel[3].value = "$14,850"

\* C7 witness: the call with the default arguments has returned 14850
C7_Witness ==
  /\ Done("calculate_customer_lifetime_value")
  /\ ~args.passed
  /\ result.total_clv = FFromInt(14850)

PenetrationReturned == Done("predict_market_penetration") /\ outcome = "returned"

\* C8: in the results table returned by predict_market_penetration, for
\* every region row predicted_revenue equals predicted_annual_sales x 4500,
\* whatever values the fitted model predicts; the table has one row per
\* region of the input.
C8_RevenueIsSalesTimes4500 ==
  PenetrationReturned =>
    LET results == frames[result.results.ref]
        sales   == results.data["predicted_annual_sales"]
        revenue == results.data["predicted_revenue"]
    IN  /\ HasColumn(results, "predicted_annual_sales")
        /\ HasColumn(results, "predicted_revenue")
        /\ NRows(results) = NRows(frames[args.demographic_data.ref])
        /\ \A i \in 1..NRows(results) :
             FEq(revenue[i], FMul(sales[i], FFromInt(4500)))

\* C8 witness: a returned results table with two rows whose predicted sales
\* differ and are not zero
C8_Witness ==
  /\ PenetrationReturned
  /\ \E i, j \in 1..NRows(frames[result.results.ref]) :
       LET sales == frames[result.results.ref].data["predicted_annual_sales"]
       IN  ~FIsZero(sales[i]) /\ ~FIsZero(sales[j]) /\ sales[i] # sales[j]

\* |a * b - c| <= 10^-6, for a quotient a = c / b of magnitudes below 10^9
QuotientOf(a, b, c) == FLe(FAbs(FSub(FMul(a, b), c)), FLit(1, 1000000))

\* column ratio of the table out is column num / column den of the table in,
\* row by row: inf or NaN on a zero divisor, else the quotient
RatioColumn(out, in, ratio, num, den) ==
  /\ NRows(out) = NRows(in)
  /\ out.dtypes[ratio] = "float64"
  /\ \A i \in 1..NRows(in) :
       LET n == in.data[num][i]
           d == in.data[den][i]
           r == out.data[ratio][i]
       IN  IF d = 0 THEN r.k = (IF n = 0 THEN "nan" ELSE "inf")
           ELSE r.k = "fin" /\ QuotientOf(r, FFromInt(d), FFromInt(n))

\* the derived feature ratio is in the table out exactly when both source
\* columns are in the table in, and is then their quotient
DerivedFeature(out, in, ratio, num, den) ==
  /\ HasColumn(out, ratio) <=> (HasColumn(in, num) /\ HasColumn(in, den))
  /\ HasColumn(out, ratio) => RatioColumn(out, in, ratio, num, den)

\* C9: prepare_features never fails because of an absent source column:
\* income_home_ratio is present in the output exactly when both
\* median_income and median_home_value are columns of the input (and then
\* equals median_income / median_home_value per row), population_density is
\* present exactly when both population and housing_units are, and the
\* caller's input table is left unmodified (the call changes no table that
\* existed before it, and returns a new one that keeps the input's columns).
C9_PrepareFeatures ==
  /\ [](Done("prepare_features") =>
          /\ outcome = "returned"
          /\ result.ref # args.df.ref
          /\ LET in  == frames[args.df.ref]
                 out == frames[result.ref]
             IN  /\ DerivedFeature(out, in, "income_home_ratio",
                                   "median_income", "median_home_value")
                 /\ DerivedFeature(out, in, "population_density",
                                   "population", "housing_units")
                 /\ \A i \in 1..Len(in.columns) :
                      /\ HasColumn(out, in.columns[i])
                      /\ out.data[in.columns[i]] = in.data[in.columns[i]])
  /\ [][op = "prepare_features" =>
          \A r \in 1..Len(frames) : frames'[r] = frames[r]]_vars

\* C9 witness: a table with median_income and without median_home_value has
\* been prepared: no income_home_ratio, and population_density is there
C9_Witness ==
  /\ Done("prepare_features")
  /\ outcome = "returned"
  /\ HasColumn(frames[args.df.ref], "median_income")
  /\ ~HasColumn(frames[args.df.ref], "median_home_value")
  /\ ~HasColumn(frames[result.ref], "income_home_ratio")
  /\ HasColumn(frames[result.ref], "population_density")

\* the ten Washington counties of the coordinate table
TenCounties ==
  {"King", "Pierce", "Snohomish", "Spokane", "Clark",
   "Thurston", "Kitsap", "Yakima", "Whatcom", "Benton"}

\* the rows of df whose region name (county, else province) is one of the
\* ten counties, in row order
MatchingRows(df) ==
  SelectSeq([i \in 1..NRows(df) |-> i],
            LAMBDA i : \/ /\ HasColumn(df, "county")
                          /\ df.data["county"][i] \in TenCounties
                       \/ /\ ~HasColumn(df, "county")
                          /\ HasColumn(df, "province")
                          /\ df.data["province"][i] \in TenCounties)

\* C10: create_market_heatmap places a marker for a row if and only if the
\* row's region name (county, else province) is one of the ten Washington
\* county names of the coordinate table: the markers of the returned map are,
\* in order, those of the matching rows, at the county's coordinates, so the
\* marker count equals the number of matching rows; rows with any other
\* name, including every Canadian province, produce no marker and do not
\* make the render fail (a table without a matching row always renders).
C10_MarkersIffNameMatches ==
  Done("create_market_heatmap") =>
    LET df      == frames[args.demographic_data.ref]
        matched == MatchingRows(df)
    IN  /\ outcome = "returned" =>
             /\ Len(result.map.children) = Len(matched)
             /\ \A k \in 1..Len(matched) :
                  LET name == IF HasColumn(df, "county")
                              THEN df.data["county"][matched[k]]
                              ELSE df.data["province"][matched[k]]
                  IN  /\ result.map.children[k].popup.name = name
                      /\ result.map.children[k].location = WaCoordinates[name]
             /\ maps["opportunity_heatmap"] = result.map
        /\ matched = <<>> => outcome = "returned"
        /\ TenCounties = DOMAIN WaCoordinates

\* C10 witness: a map has been returned for a table with named rows of
\* which some, not all, are in the coordinate table
C10_Witness ==
  /\ Done("create_market_heatmap")
  /\ outcome = "returned"
  /\ HasColumn(frames[args.demographic_data.ref], "county")
  /\ Len(result.map.children) > 0
  /\ Len(result.map.children) < NRows(frames[args.demographic_data.ref])

\* C11: the four Executive Dashboard metrics are 187 monthly leads, a 28.5%
\* conversion rate, $241,500 revenue month-to-date and a $1.2M pipeline for
\* every combination of the sidebar inputs (territory, analysis period,
\* marketing budget), so two renders that differ only in the sidebar values
\* show the same Executive metrics.
C11_ExecutiveMetricsFixed ==
  Done("streamlit_dashboard") =>
    /\ outcome = "returned"
    /\ Len(result.executive) = 4
    /\ [i \in 1..4 |-> result.executive[i].label] =
         <<"Monthly Leads", "Conversion Rate", "Revenue (MTD)", "Pipeline Value">>
    /\ [i \in 1..4 |-> result.executive[i].value] =
         <<"187", "28.5%", "$241,500", "$1.2M">>

\* C11 witness: the page has been rendered for a territory, a period and a
\* budget that are not the widgets' defaults, and shows 187 monthly leads
C11_Witness ==
  /\ Done("streamlit_dashboard")
  /\ args.territory = "Canada - Alberta"
  /\ args.date_range # 90
  /\ args.monthly_marketing = 50000
  /\ result.executive[1].value = "187"

\* k/10 is the one-decimal value nearest to 100 * conversions / leads
NearestTenth(k, conversions, leads) ==
  /\ 2 * (1000 * conversions - k * leads) <= leads
  /\ 2 * (k * leads - 1000 * conversions) <= leads

\* C12: in the Lead Generation tab every lead-source row's conversion-rate
\* percentage is conversions / leads * 100 rounded to one decimal place (the
\* float nearest to that one-decimal number); the row with 67 leads and 19
\* conversions shows 28.4.
C12_ConversionRateOneDecimal ==
  Done("streamlit_dashboard") =>
    LET t == result.lead_sources
    IN  /\ NRows(t) = 6
        /\ \A i \in 1..NRows(t) :
             \E k \in 0..1000 :
               /\ NearestTenth(k, t.data["Conversions"][i], t.data["Leads"][i])
               /\ t.data["Conversion_Rate"][i] = FLit(k, 10)
        /\ \A i \in 1..NRows(t) :
             (t.data["Leads"][i] = 67 /\ t.data["Conversions"][i] = 19)
               => t.data["Conversion_Rate"][i] = FLit(284, 10)

\* C12 witness: the page has been rendered and its table has the row with
\* 67 leads and 19 conversions, whose exact rate 28.358... is not a
\* one-decimal number
C12_Witness ==
  /\ Done("streamlit_dashboard")
  /\ result.lead_sources.data["Leads"][1] = 67
  /\ result.lead_sources.data["Conversions"][1] = 19
  /\ result.lead_sources.data["Conversion_Rate"][1] = FLit(284, 10)
  /\ 1000 * 19 # 284 * 67

\* the stated January-to-December pattern: month, index in tenths, category
SeasonalPattern ==
  <<<<"Jan", 4, "Low">>, <<"Feb", 5, "Low">>, <<"Mar", 9, "Medium">>,
    <<"Apr", 13, "High">>, <<"May", 16, "Peak">>, <<"Jun", 18, "Peak">>,
    <<"Jul", 17, "Peak">>, <<"Aug", 15, "High">>, <<"Sep", 12, "High">>,
    <<"Oct", 9, "Medium">>, <<"Nov", 5, "Low">>, <<"Dec", 4, "Low">>>>

IsSeasonalPattern(t) ==
  /\ t.columns = <<"month", "seasonal_index", "demand_category">>
  /\ NRows(t) = 12
  /\ \A i \in 1..12 :
       /\ t.data["month"][i] = SeasonalPattern[i][1]
       /\ t.data["seasonal_index"][i] = FLit(SeasonalPattern[i][2], 10)
       /\ t.data["demand_category"][i] = SeasonalPattern[i][3]

\* C13: seasonal_demand_forecast returns the caller's historical series,
\* the same object and unchanged, whenever one is supplied, and returns the
\* fixed twelve-row January-December table (indices 0.4, 0.5, 0.9, 1.3, 1.6,
\* 1.8, 1.7, 1.5, 1.2, 0.9, 0.5, 0.4; categories Low, Low, Medium, High,
\* Peak, Peak, Peak, High, High, Medium, Low, Low), as a new table, exactly
\* when none is supplied.
C13_SeasonalDemandForecast ==
  /\ [](Done("seasonal_demand_forecast") =>
          /\ outcome = "returned"
          /\ result.kind = "frame"
          /\ args.historical_data # None => result = args.historical_data
          /\ args.historical_data = None =>
                /\ result.ref = Len(frames)
                /\ IsSeasonalPattern(frames[result.ref]))
  /\ [][(pc = "call" /\ op = "seasonal_demand_forecast") =>
          /\ \A r \in 1..Len(frames) : frames'[r] = frames[r]
          /\ Len(frames') = Len(frames) + (IF args.historical_data = None
                                            THEN 1 ELSE 0)]_vars

\* C13 witness: a call without a series has returned the twelve-row table
C13_Witness ==
  /\ Done("seasonal_demand_forecast")
  /\ args.historical_data = None
  /\ NRows(frames[result.ref]) = 12
  /\ frames[result.ref].data["demand_category"][6] = "Peak"

\* C18: collect_housing_age_data never fails on its region argument: for
\* every region other than 'washington', unrecognised values included, it
\* returns the Canada seven-bracket table (percentages 7, 11, 14, 17, 27,
\* 19, 5; average roof ages 3, 8, 13, 18, 26, 22, 27), and in every returned
\* table in_treatment_window is true exactly for the brackets '6-10 years'
\* and '11-15 years'.
C18_HousingAgeData ==
  Done("collect_housing_age_data") =>
    /\ outcome = "returned"
    /\ LET t == frames[result.ref]
       IN  /\ t.columns = <<"age_range", "percentage", "avg_roof_age",
                            "in_treatment_window">>
           /\ t.data["age_range"] =
                <<"0-5 years", "6-10 years", "11-15 years", "16-20 years",
                  "21-30 years", "31-50 years", "51+ years">>
           /\ args.region # "washington" =>
                /\ t.data["percentage"] = <<7, 11, 14, 17, 27, 19, 5>>
                /\ t.data["avg_roof_age"] = <<3, 8, 13, 18, 26, 22, 27>>
           /\ \A i \in 1..7 :
                t.data["in_treatment_window"][i]
                  <=> t.data["age_range"][i] \in {"6-10 years", "11-15 years"}

\* C18 witness: the table has been returned for a region that is neither
\* 'washington' nor 'canada'
C18_Witness ==
  /\ Done("collect_housing_age_data")
  /\ args.region = "oregon"
  /\ outcome = "returned"
  /\ frames[result.ref].data["percentage"][5] = 27
  /\ frames[result.ref].data["in_treatment_window"][2]

\* the calls that have ended, in order
EndedCalls ==
  IF pc = "done"
  THEN Append(history, [op |-> op, args |-> args, outcome |-> outcome,
                        result |-> result])
  ELSE history

ReturnedPredict(call) ==
  call.op = "predict_market_penetration" /\ call.outcome = "returned"

\* model is the forest fitted by the returned predict call: it was trained
\* on that call's rows, marketing spend and months, and it is the model
\* whose predictions the call returned
FittedBy(model, call) ==
  LET table == frames[call.args.demographic_data.ref]
  IN  /\ model.estimator = "RandomForestRegressor"
      /\ model.X.data["population"] = table.data["population"]
      /\ model.X.data["marketing_spend"] =
           [i \in 1..NRows(table) |-> call.args.marketing_spend]
      /\ model.X.data["months_in_market"] =
           [i \in 1..NRows(table) |-> call.args.months_in_market]
      /\ ForestPredict(model.fit, model.y) =
           frames[call.result.results.ref].data["predicted_annual_sales"]

\* C14: for one model suite and any sequence of its operations, the model
\* registry is empty until the first predict_market_penetration completes;
\* after each completed predict_market_penetration the entry under
\* 'penetration' (the only key) is the model fitted by the most recent
\* completed call, overwriting any earlier one; prepare_features,
\* forecast_lead_generation and seasonal_demand_forecast (and a
\* predict_market_penetration that raises) leave the registry unchanged.
C14_ModelRegistry ==
  /\ [](LET completed == SelectSeq(EndedCalls, ReturnedPredict)
        IN  IF completed = <<>> THEN models = <<>>
            ELSE /\ DOMAIN models = {"penetration"}
                 /\ FittedBy(models["penetration"], completed[Len(completed)]))
  /\ [][models' # models =>
          (pc = "call" /\ op = "predict_market_penetration"
             /\ outcome' = "returned")]_vars

\* C14 witness: a second predict_market_penetration with another marketing
\* spend has completed and its model has replaced the first call's
C14_Witness ==
  /\ PenetrationReturned
  /\ Len(history) = 1
  /\ ReturnedPredict(history[1])
  /\ history[1].args.marketing_spend # args.marketing_spend
  /\ models["penetration"].X.data["marketing_spend"][1] = args.marketing_spend

RenderOperations ==
  {"create_market_heatmap", "optimize_territory_coverage",
   "competitor_proximity_analysis"}

\* C15: for one GeospatialAnalyzer and any sequence of its three render
\* operations, the map registry holds, for each operation that has been
\* called, the map most recently rendered by that operation: when a render
\* operation has returned, the map it returned is an entry of the registry.
C15_RegistryHoldsLastRender ==
  (pc = "done" /\ op \in RenderOperations /\ outcome = "returned") =>
    \E key \in DOMAIN maps : maps[key] = result.map

SameInputs(call) ==
  /\ frames[call.args.demographic_data.ref] = frames[args.demographic_data.ref]
  /\ call.args.marketing_spend = args.marketing_spend
  /\ call.args.months_in_market = args.months_in_market

\* C16: predict_market_penetration is deterministic: a call returns the
\* same predictions (the same results table) and the same feature-importance
\* ranking as every earlier call of the process with the same demographics,
\* marketing spend and months in market, whatever operations, the random
\* collect_weather_data included, ran before or between the two calls.
C16_PenetrationDeterministic ==
  PenetrationReturned =>
    \A i \in 1..Len(history) :
      (ReturnedPredict(history[i]) /\ SameInputs(history[i])) =>
        /\ frames[history[i].result.results.ref] = frames[result.results.ref]
        /\ frames[history[i].result.feature_importance.ref] =
             frames[result.feature_importance.ref]

\* C16 witness: the same prediction has been made twice, with a
\* collect_weather_data between the two calls
C16_Witness ==
  /\ PenetrationReturned
  /\ Len(history) = 2
  /\ ReturnedPredict(history[1])
  /\ SameInputs(history[1])
  /\ history[2].op = "collect_weather_data"
  /\ history[2].outcome = "returned"

\* C17: the seeded randomness of predict_market_penetration is isolated
\* from the rest of the process: a call of predict_market_penetration
\* leaves the state of the process-wide random generator unchanged.
C17_PredictLeavesGeneratorUnchanged ==
  [][(pc = "call" /\ op = "predict_market_penetration") => rng' = rng]_vars

====
